---- MODULE Spec2Model ----
\* Model of the OpenCode Remote web client (src/web/src/App.tsx): the App
\* component's state, its handlers, the polling effect and every point where a
\* handler awaits a network response.
EXTENDS Integers, Sequences, FiniteSets, Bags, TLC

\* ---------------------------------------------------------------- bounds
\* Requests for sessions, messages and actions that may await a response at the
\* same time.
MaxInflight == 2
\* listCommands requests that may await a response at the same time.
MaxCatalog == 1
\* Longest composer text enumerated for the send parser.
MaxLen == 4
\* Longest server session list enumerated for the reconciler.
MaxItems == 3
\* Longest composer text a send starts from when its awaits are followed to
\* the end.
MaxTyped == 2

\* ---------------------------------------------------------------- values
None == "none"
\* The two session ids the server may report.
Ids == {"s1", "s2"}
\* Messages an ApiClient rejection may carry ((err as Error).message).
ErrMsgs == {"e1"}
\* Payload versions of one session's messages/todos, as served.
Payloads == {"m1"}
\* No messages / no todos ([]).
Empty == [sid |-> None, v |-> None]

\* ServerConfig, types.ts: host, port, password (username plays no part in any
\* handler's control flow and is left out).
defaultConfig == [host |-> "", port |-> 4096, password |-> ""]
Hosts == {"", "h"}
Ports == {0, 4096}
Passwords == {"", "p"}
Configs == [host : Hosts, port : Ports, password : Passwords]
\* The configs used while the scheduler is explored: the default port.
PolledConfigs == {c \in Configs : c.port = defaultConfig.port}

\* ---------------------------------------------------------------- persisted config
\* localStorage.getItem(STORAGE_KEY), line 47: nothing stored (present is
\* FALSE), or a text, modelled by whether JSON.parse accepts it (json) and the
\* object it then yields (value), which may hold any part of the config fields.
Fields == DOMAIN defaultConfig
NoFields == [f \in {} |-> ""]
PartialConfigs == {[f \in D |-> c[f]] : c \in Configs, D \in SUBSET Fields}
NothingStored == [present |-> FALSE, json |-> FALSE, value |-> NoFields]
CorruptText == [present |-> TRUE, json |-> FALSE, value |-> NoFields]
StoredValues ==
    {NothingStored, CorruptText} \cup [present : {TRUE}, json : {TRUE}, value : PartialConfigs]

\* JSON.stringify(draftConfig), line 90.
stringify(cfg) == [present |-> TRUE, json |-> TRUE, value |-> cfg]

\* A loader that lets a corrupt value through as an empty config.
loadConfigNoFallback(saved) ==
    IF ~saved.present THEN defaultConfig
    ELSE IF ~saved.json THEN [host |-> "", port |-> 0, password |-> ""]
    ELSE [f \in Fields |-> IF f \in DOMAIN saved.value THEN saved.value[f]
                            ELSE defaultConfig[f]]

\* The initialiser of config, lines 46-54: the default when nothing is stored
\* or JSON.parse throws, else { ...defaultConfig, ...JSON.parse(saved) }.
loadConfig(saved) ==
    IF ~saved.present THEN defaultConfig
    ELSE IF ~saved.json THEN defaultConfig
    ELSE [f \in Fields |-> IF f \in DOMAIN saved.value THEN saved.value[f]
                            ELSE defaultConfig[f]]

\* ---------------------------------------------------------------- strings
\* A text is a sequence of one-character strings.
Whitespace == {" ", "\n"}
Alphabet == {"/", " ", "\n", "a"}

RECURSIVE trimStart(_)
trimStart(s) ==
    IF s # <<>> /\ Head(s) \in Whitespace THEN trimStart(Tail(s)) ELSE s

RECURSIVE trimEnd(_)
trimEnd(s) ==
    IF s # <<>> /\ s[Len(s)] \in Whitespace
    THEN trimEnd(SubSeq(s, 1, Len(s) - 1))
    ELSE s

\* String.prototype.trim
trim(s) == trimEnd(trimStart(s))

\* String.prototype.slice(n), n >= 0
slice(s, n) == IF n >= Len(s) THEN <<>> ELSE SubSeq(s, n + 1, Len(s))

startsWith(s, c) == s # <<>> /\ Head(s) = c

\* s.split(sep)[0]: the text before the first occurrence of sep.
RECURSIVE splitFirst(_, _)
splitFirst(s, sep) ==
    IF s = <<>> \/ Head(s) = sep THEN <<>>
    ELSE <<Head(s)>> \o splitFirst(Tail(s), sep)

\* ---------------------------------------------------------------- formatter
\* The characters of the texts the formatter is run on.
DisplayAlphabet == {"\n", " ", "-", "a"}

\* text.includes("\n"), line 38.
includes(s, c) == \E i \in 1..Len(s) : s[i] = c

\* text.replace(/\s-\s(?=\S)/g, "\n- "), line 38: from left to right, every
\* whitespace, "-", whitespace that a non-whitespace character follows becomes
\* a newline, "-" and a space; the character that follows is not consumed.
RECURSIVE replaceBullets(_)
replaceBullets(s) ==
    IF s = <<>> THEN <<>>
    ELSE IF /\ Len(s) >= 4
            /\ s[1] \in Whitespace /\ s[2] = "-" /\ s[3] \in Whitespace
            /\ s[4] \notin Whitespace
    THEN <<"\n", "-", " ">> \o replaceBullets(SubSeq(s, 4, Len(s)))
    ELSE <<Head(s)>> \o replaceBullets(Tail(s))

\* String.prototype.split("\n"), line 40: the lines between the newlines, one
\* more than there are newlines.
RECURSIVE split(_, _)
split(s, sep) ==
    IF ~includes(s, sep) THEN <<s>>
    ELSE <<splitFirst(s, sep)>> \o split(slice(s, Len(splitFirst(s, sep)) + 1), sep)

\* The filter of line 42 on the trimmed lines arr: a line stays when it is not
\* empty, or when it is not the first and the line before it is not empty.
keptLine(arr, idx) == Len(arr[idx]) > 0 \/ (idx > 1 /\ Len(arr[idx - 1]) > 0)

RECURSIVE filterLines(_, _)
filterLines(arr, idx) ==
    IF idx > Len(arr) THEN <<>>
    ELSE (IF keptLine(arr, idx) THEN <<arr[idx]>> ELSE <<>>) \o filterLines(arr, idx + 1)

\* The lines of line 39-41: normalised, split and trimmed at the end.
trimmedLines(s) ==
    LET normalized == IF includes(s, "\n") THEN s ELSE replaceBullets(s)
        parts == split(normalized, "\n")
    IN  [i \in 1..Len(parts) |-> trimEnd(parts[i])]

\* toDisplayLines, lines 37-43.
toDisplayLines(s) == filterLines(trimmedLines(s), 1)

\* No line holds a newline: this value stands for a text not formatted yet.
NotRendered == <<<<"\n">>>>

\* ---------------------------------------------------------------- send parser
\* What one send hands to the ApiClient: endpoint "command" (sendCommand with
\* name, args), "prompt" (sendPrompt with the text in name) or "empty" (nothing).
NoDispatch == [endpoint |-> "empty", name |-> <<>>, args |-> <<>>]

\* send, lines 169-183: the text is trimmed; a blank text sends nothing; a text
\* starting with "/" is cut after the "/", its command is the part before the
\* first " " trimmed, its args the rest from offset command.length trimmed, and
\* an empty command sends nothing; any other text is a prompt.
route(composerText) ==
    LET text == trim(composerText)
        normalized == IF startsWith(text, "/") THEN slice(text, 1) ELSE text
        command == trim(splitFirst(normalized, " "))
        args == trim(slice(normalized, Len(command)))
    IN  IF text = <<>> THEN NoDispatch
        ELSE IF startsWith(text, "/")
        THEN IF command = <<>> THEN NoDispatch
             ELSE [endpoint |-> "command", name |-> command, args |-> args]
        ELSE [endpoint |-> "prompt", name |-> text, args |-> <<>>]

\* ---------------------------------------------------------------- reconciler
NoSummary == [files |-> -1, additions |-> -1, deletions |-> -1]
Summaries == {NoSummary, [files |-> 1, additions |-> 2, deletions |-> 3]}
Updateds == {1, 2}
StatusTypes == {"busy"}
\* Session, types.ts 13-26 (time.created is never read).
RawSessions ==
    [id : Ids, title : {"t"}, directory : {"d"}, updated : Updateds,
     summary : Summaries]
\* listStatuses: a map from some session ids to a status type.
StatusMaps == UNION {[D -> StatusTypes] : D \in SUBSET Ids}

RECURSIVE SeqsUpTo(_, _)
SeqsUpTo(S, n) ==
    IF n = 0 THEN {<<>>}
    ELSE LET shorter == SeqsUpTo(S, n - 1)
         IN  shorter \cup {Append(q, x) : q \in {r \in shorter : Len(r) = n - 1}, x \in S}

\* A mapping that looks no status up.
toViewStatusLost(session, sts) ==
    [id |-> session.id,
     title |-> session.title,
     directory |-> session.directory,
     updated |-> session.updated,
     status |-> "unknown",
     files |-> IF session.summary = NoSummary THEN 0 ELSE session.summary.files,
     additions |-> IF session.summary = NoSummary THEN 0 ELSE session.summary.additions,
     deletions |-> IF session.summary = NoSummary THEN 0 ELSE session.summary.deletions]

\* The mapping of lines 115-124, one SessionView per Session.
toView(session, sts) ==
    [id |-> session.id,
     title |-> session.title,
     directory |-> session.directory,
     updated |-> session.updated,
     status |-> IF session.id \in DOMAIN sts THEN sts[session.id] ELSE "unknown",
     files |-> IF session.summary = NoSummary THEN 0 ELSE session.summary.files,
     additions |-> IF session.summary = NoSummary THEN 0 ELSE session.summary.additions,
     deletions |-> IF session.summary = NoSummary THEN 0 ELSE session.summary.deletions]

\* Insertion behind every element that is not older.
RECURSIVE insertDesc(_, _)
insertDesc(x, sorted) ==
    IF sorted = <<>> THEN <<x>>
    ELSE IF Head(sorted).updated >= x.updated
    THEN <<Head(sorted)>> \o insertDesc(x, Tail(sorted))
    ELSE <<x>> \o sorted

\* A sort that reverses the elements of equal updated.
RECURSIVE insertDescUnstable(_, _)
insertDescUnstable(x, sorted) ==
    IF sorted = <<>> THEN <<x>>
    ELSE IF Head(sorted).updated > x.updated
    THEN <<Head(sorted)>> \o insertDescUnstable(x, Tail(sorted))
    ELSE <<x>> \o sorted

RECURSIVE sortUnstable(_)
sortUnstable(views) ==
    IF views = <<>> THEN <<>>
    ELSE insertDescUnstable(views[Len(views)], sortUnstable(SubSeq(views, 1, Len(views) - 1)))

\* Array.prototype.sort with (a, b) => b.updated - a.updated, line 125: a stable
\* sort (ECMAScript 2019).
RECURSIVE sortByUpdatedDesc(_)
sortByUpdatedDesc(views) ==
    IF views = <<>> THEN <<>>
    ELSE insertDesc(views[Len(views)], sortByUpdatedDesc(SubSeq(views, 1, Len(views) - 1)))

\* refreshSessions, lines 114-125.
reconcile(its, sts) ==
    sortByUpdatedDesc([i \in 1..Len(its) |-> toView(its[i], sts)])

\* ---------------------------------------------------------------- state
VARIABLES
    config,         \* useState config, line 46
    draftConfig,    \* useState draftConfig, line 56
    view,           \* useState view, line 59
    commands,       \* useState commands, line 58
    sessions,       \* useState sessions, line 63
    selectedID,     \* useState selectedID, line 64
    messages,       \* useState messages, line 65
    todos,          \* useState todos, line 66
    composer,       \* useState composer, line 68
    busySending,    \* useState busySending, line 69
    error,          \* useState error, line 71
    timers,         \* the intervals set by setInterval and not yet cleared
    effectCleanup,  \* the timer the polling effect's cleanup will clear, or -1
    inflight,       \* bag of handler continuations awaiting an ApiClient response
    items,          \* the session list the server serves to the reconciler run
    statuses,       \* the status map the server serves to the reconciler run
    storage,        \* localStorage[STORAGE_KEY], lines 47 and 90
    shownText,      \* the text of the message the formatter is run on, line 384
    shownLines      \* what toDisplayLines made of it, line 386

vars ==
    <<config, draftConfig, view, commands, sessions, selectedID, messages, todos,
      composer, busySending, error, timers, effectCleanup, inflight, items, statuses,
      storage, shownText, shownLines>>

\* The component state as one record; a handler builds the next one from it.
Cur ==
    [config |-> config, draftConfig |-> draftConfig, view |-> view,
     commands |-> commands, sessions |-> sessions, selectedID |-> selectedID,
     messages |-> messages, todos |-> todos, composer |-> composer,
     busySending |-> busySending, error |-> error, storage |-> storage]

\* selectedSession, lines 73-76: the id of the listed session that is selected
\* (its directory is only passed on to the ApiClient).
selectedSession(sess, sel) ==
    IF \E i \in 1..Len(sess) : sess[i].id = sel THEN sel ELSE None

\* hasConfiguredServer, line 86.
hasConfiguredServer(cfg) == cfg.host # "" /\ cfg.port > 0

\* The guard of refreshSessions and loadCommands, lines 110 and 133.
credsPresent(cfg) == cfg.host # "" /\ cfg.password # ""

\* A guard that looks at the host alone.
pollingGuardHostOnly(cfg) == cfg.host # ""

\* The guard of the polling effect, line 221.
pollingGuard(cfg) == cfg.host # "" /\ cfg.password # ""

\* Dependencies that leave the selected session out.
pollingDepsCredsOnly(cfg, sess, sel) == <<cfg.host, cfg.password>>

\* The dependencies of the polling effect, line 231.
pollingDeps(cfg, sess, sel) == <<cfg.host, cfg.password, selectedSession(sess, sel)>>

\* A cleanup that clears nothing.
clearIntervalForgotten(ts, id) == ts

\* clearInterval(timer), line 230.
clearInterval(ts, id) == {t \in ts : t.id # id}

\* A continuation awaiting a response: the handler (op), the await it is at (pc),
\* and what its closure captured: the session it works on (sid), whether its
\* config passes the refreshSessions guard (creds), whether the selectedID it
\* saw is the session it works on (wasSelected) and, for send, what was
\* dispatched (disp). failed and outrun are bookkeeping: the message of the last
\* rejection this handler run has caught so far, or None, and whether a user
\* action has published its own fetch of the same data since this one was issued.
Task(op, pc, sid, creds, wasSelected, disp) ==
    [op |-> op, pc |-> pc, sid |-> sid, creds |-> creds,
     wasSelected |-> wasSelected, disp |-> disp, failed |-> None, outrun |-> FALSE]

\* The continuation that follows t in the same handler run.
Then(t, pc, creds, caught) ==
    [op |-> t.op, pc |-> pc, sid |-> t.sid, creds |-> creds,
     wasSelected |-> FALSE, disp |-> NoDispatch, failed |-> caught, outrun |-> FALSE]

One(t) == SetToBag({t})

\* How many continuations of bag b satisfy P.
RECURSIVE CountSet(_, _)
CountSet(b, S) ==
    IF S = {} THEN 0
    ELSE LET t == CHOOSE x \in S : TRUE
         IN  b[t] + CountSet(b, S \ {t})

Catalog(b) == CountSet(b, {t \in BagToSet(b) : t.pc = "commands"})

\* The bounds on what may await a response at once.
WithinBounds(b) ==
    /\ Catalog(b) <= MaxCatalog
    /\ BagCardinality(b) - Catalog(b) <= MaxInflight

\* The handlers the user starts: Test, New, Delete, Stop and Send.
UserActions == {"test", "create", "delete", "send", "abort"}

\* The fetches of interval ticks awaited at pc in b and not yet outrun, and the
\* same fetches noted as outrun.
TickFetches(b, pc) ==
    LET S == {u \in BagToSet(b) : u.op = "tick" /\ u.pc = pc /\ ~u.outrun}
    IN  [u \in S |-> b[u]]

Outrun(b, pc) ==
    LET S == {[u EXCEPT !.outrun = TRUE] : u \in DOMAIN TickFetches(b, pc)}
    IN  [m \in S |-> b[[m EXCEPT !.outrun = FALSE]]]

\* An interval id not in use.
FreshTimer(ts) == CHOOSE i \in 0..Cardinality(ts) : \A t \in ts : t.id # i

\* One batch of state updates followed by the effects of lines 220-237: the
\* component state becomes n, the continuation in `done` has run, those in
\* `started` now await their responses. When a dependency of the polling effect
\* changed, its cleanup clears the interval it had set, and with credentials
\* present it issues refreshSessions(true) and loadCommands() and sets a new
\* interval whose callback closes over the selected session of this render.
Commit(n, done, started) ==
    LET rerun == pollingDeps(n.config, n.sessions, n.selectedID)
                    # pollingDeps(config, sessions, selectedID)
        polling == pollingGuard(n.config)
        kept == IF rerun THEN clearInterval(timers, effectCleanup) ELSE timers
        tid == FreshTimer(kept)
        timer == [id |-> tid,
                  sel |-> selectedSession(n.sessions, n.selectedID),
                  creds |-> credsPresent(n.config)]
        issued == IF rerun /\ polling
                  THEN (IF credsPresent(n.config)
                        THEN One(Task("silent", "refresh", None, TRUE, FALSE, NoDispatch))
                               (+) One(Task("effect", "commands", None, TRUE, FALSE, NoDispatch))
                        ELSE EmptyBag)
                  ELSE EmptyBag
        unconfigured == hasConfiguredServer(config) /\ ~hasConfiguredServer(n.config)
    IN  /\ config' = n.config
        /\ draftConfig' = n.draftConfig
        /\ view' = IF unconfigured THEN "settings" ELSE n.view
        /\ commands' = n.commands
        /\ sessions' = n.sessions
        /\ selectedID' = n.selectedID
        /\ messages' = n.messages
        /\ todos' = n.todos
        /\ composer' = n.composer
        /\ busySending' = n.busySending
        /\ error' = n.error
        /\ storage' = n.storage
        /\ timers' = IF rerun /\ polling THEN kept \cup {timer} ELSE kept
        /\ effectCleanup' = IF rerun THEN (IF polling THEN tid ELSE -1) ELSE effectCleanup
        /\ inflight' = ((inflight (-) done) (+) started) (+) issued
        /\ WithinBounds(inflight')
        /\ UNCHANGED <<items, statuses, shownText, shownLines>>

\* The state after the first render and its effects: config is the default
\* merged with whatever localStorage holds (lines 46-54), the view follows line
\* 60, and with credentials present the polling effect has run once.
Init ==
    /\ storage \in {NothingStored} \cup {stringify(c) : c \in PolledConfigs \ {defaultConfig}}
    /\ config = loadConfig(storage)
    /\ draftConfig = config
    /\ view = IF hasConfiguredServer(config) THEN "sessions" ELSE "settings"
    /\ commands = <<>>
    /\ sessions = <<>>
    /\ selectedID = None
    /\ messages = Empty
    /\ todos = Empty
    /\ composer = <<>>
    /\ busySending = FALSE
    /\ error = None
    /\ timers = IF pollingGuard(config)
                THEN {[id |-> 0, sel |-> None, creds |-> credsPresent(config)]}
                ELSE {}
    /\ effectCleanup = IF pollingGuard(config) THEN 0 ELSE -1
    /\ inflight = IF pollingGuard(config) /\ credsPresent(config)
                  THEN One(Task("silent", "refresh", None, TRUE, FALSE, NoDispatch))
                         (+) One(Task("effect", "commands", None, TRUE, FALSE, NoDispatch))
                  ELSE EmptyBag
    /\ items = <<>>
    /\ statuses = <<>>
    /\ shownText = <<>>
    /\ shownLines = NotRendered

\* ---------------------------------------------------------------- server answers
\* What listSessions and listStatuses may answer while the whole client runs:
\* s1 alone, or s1 and the newer s2.
rawOf(id) ==
    [id |-> id, title |-> "t", directory |-> "d",
     updated |-> IF id = "s1" THEN 1 ELSE 2, summary |-> NoSummary]
ServedLists == {<<rawOf("s1")>>, <<rawOf("s1"), rawOf("s2")>>}
ServedStatuses == {<<>>}
\* What listCommands may answer.
ServedCommands == {<<>>}
\* The texts typed into the composer while the whole client runs.
TypedTexts == {<<>>, <<"/", "a">>, <<"/", " ", "a">>}

ListedIds == {sessions[i].id : i \in 1..Len(sessions)}

\* The tab row, lines 247-262: a tab can be pressed unless it is disabled.
tabEnabled(v) ==
    /\ v = "sessions" => hasConfiguredServer(config)
    /\ v = "detail" => selectedSession(sessions, selectedID) # None

\* The panel v is on screen, or its tab is pressed first to show it.
Shown(v) == view = v \/ tabEnabled(v)

\* ---------------------------------------------------------------- settings
\* The draft inputs, lines 270-291.
setDraftConfig(c) ==
    /\ Shown("settings")
    /\ c # draftConfig
    /\ \/ c = [draftConfig EXCEPT !.host = c.host]
       \/ c = [draftConfig EXCEPT !.port = c.port]
       \/ c = [draftConfig EXCEPT !.password = c.password]
    /\ Commit([Cur EXCEPT !.draftConfig = c], EmptyBag, EmptyBag)

\* A Save that writes nothing to localStorage.
saveConfigUnpersisted ==
    /\ Shown("settings")
    /\ Commit([Cur EXCEPT !.config = draftConfig,
                          !.view = IF hasConfiguredServer(draftConfig)
                                   THEN "sessions" ELSE view],
              EmptyBag, EmptyBag)

\* saveConfig, lines 88-95.
saveConfig ==
    /\ Shown("settings")
    /\ Commit([Cur EXCEPT !.config = draftConfig,
                          !.storage = stringify(draftConfig),
                          !.view = IF hasConfiguredServer(draftConfig)
                                   THEN "sessions" ELSE view],
              EmptyBag, EmptyBag)

\* The settings form filled in with c and saved: the draft inputs followed by
\* the Save button.
fillAndSave(c) ==
    /\ Shown("settings")
    /\ Commit([Cur EXCEPT !.draftConfig = c,
                          !.config = c,
                          !.storage = stringify(c),
                          !.view = IF hasConfiguredServer(c) THEN "sessions" ELSE view],
              EmptyBag, EmptyBag)

\* testConnection up to its await, lines 97-100.
testConnection ==
    /\ Shown("settings")
    /\ Commit([Cur EXCEPT !.error = None], EmptyBag,
              One(Task("test", "api", None, FALSE, FALSE, NoDispatch)))

\* testConnection after api.health settles, lines 101-106.
testConnectionSettle(t, ok, msg) ==
    /\ t.op = "test" /\ t.pc = "api"
    /\ Commit([Cur EXCEPT !.error = IF ok THEN error ELSE msg], One(t), EmptyBag)

\* The tab row, lines 247-262.
setView(v) ==
    /\ v # view
    /\ tabEnabled(v)
    /\ Commit([Cur EXCEPT !.view = v], EmptyBag, EmptyBag)

\* ---------------------------------------------------------------- sessions view
\* The Refresh button, line 312: refreshSessions(true) up to its await.
refreshButton ==
    /\ Shown("sessions")
    /\ credsPresent(config)
    /\ Commit(Cur, EmptyBag, One(Task("silent", "refresh", None, TRUE, FALSE, NoDispatch)))

\* The Open button, lines 338-342: select, loadSelected up to its await, detail.
openSession(id) ==
    /\ Shown("sessions")
    /\ id \in ListedIds
    /\ Commit([Cur EXCEPT !.selectedID = id, !.error = None, !.view = "detail"],
              EmptyBag, One(Task("open", "load", id, FALSE, FALSE, NoDispatch)))

\* createSession up to its first await, lines 156-158.
createSession ==
    /\ Shown("sessions")
    /\ Commit(Cur, EmptyBag,
              One(Task("create", "api", None, credsPresent(config), FALSE, NoDispatch)))

\* createSession after api.createSession settles, lines 158-164: on success
\* refreshSessions() runs to its await, or, when its guard returns at once,
\* the new session is selected and loadSelected runs to its await.
createSessionSettle(t, ok, id, msg) ==
    /\ t.op = "create" /\ t.pc = "api"
    /\ IF ~ok
       THEN Commit([Cur EXCEPT !.error = msg], One(t), EmptyBag)
       ELSE IF t.creds
       THEN Commit([Cur EXCEPT !.error = None], One(t),
                   One(Then([t EXCEPT !.sid = id], "refresh", FALSE, None)))
       ELSE Commit([Cur EXCEPT !.selectedID = id, !.error = None], One(t),
                   One(Then([t EXCEPT !.sid = id], "load", FALSE, None)))

\* deleteSession up to its await, lines 194-196.
deleteSession(id) ==
    /\ Shown("sessions")
    /\ id \in ListedIds
    /\ Commit(Cur, EmptyBag,
              One(Task("delete", "api", id, credsPresent(config), selectedID = id, NoDispatch)))

\* deleteSession after api.deleteSession settles, lines 197-206; selectedID is
\* the one of the render the handler was created in.
deleteSessionSettle(t, ok, msg) ==
    /\ t.op = "delete" /\ t.pc = "api"
    /\ IF ~ok
       THEN Commit([Cur EXCEPT !.error = msg], One(t), EmptyBag)
       ELSE LET cleared == IF t.wasSelected
                           THEN [Cur EXCEPT !.selectedID = None, !.messages = Empty,
                                            !.todos = Empty, !.view = "sessions"]
                           ELSE Cur
            IN  Commit(cleared, One(t),
                       IF t.creds
                       THEN One(Then([t EXCEPT !.sid = None], "refresh", FALSE, None))
                       ELSE EmptyBag)

\* ---------------------------------------------------------------- detail view
\* abortSession up to its await, lines 209-212 (the Stop button is disabled
\* without a selected session).
abortSession ==
    /\ Shown("detail")
    /\ selectedSession(sessions, selectedID) # None
    /\ Commit(Cur, EmptyBag,
              One(Task("abort", "api", selectedSession(sessions, selectedID),
                       credsPresent(config), FALSE, NoDispatch)))

\* An abortSession that reloads the session without refreshing the list.
abortSessionSettleNoRefresh(t, ok, msg) ==
    /\ t.op = "abort" /\ t.pc = "api"
    /\ IF ~ok
       THEN Commit([Cur EXCEPT !.error = msg], One(t), EmptyBag)
       ELSE Commit([Cur EXCEPT !.error = None], One(t), One(Then(t, "load", FALSE, None)))

\* abortSession after api.abort settles, lines 212-217: refreshSessions() runs
\* to its await, or returns at once and loadSelected runs to its await.
abortSessionSettle(t, ok, msg) ==
    /\ t.op = "abort" /\ t.pc = "api"
    /\ IF ~ok
       THEN Commit([Cur EXCEPT !.error = msg], One(t), EmptyBag)
       ELSE Commit([Cur EXCEPT !.error = None], One(t),
                   One(Then(t, IF t.creds THEN "refresh" ELSE "load", FALSE, None)))

\* The composer textarea, line 412.
setComposer(text) ==
    /\ Shown("detail")
    /\ text # composer
    /\ Commit([Cur EXCEPT !.composer = text], EmptyBag, EmptyBag)

\* send up to its first await, lines 167-183, started by the Send button
\* (disabled without a selected session or while busySending, line 421) or by
\* the Enter key (lines 414-418). Without a selected session or with a blank
\* text it returns at once; with an empty command it sets and resets
\* busySending and clears the error.
send(byButton) ==
    /\ Shown("detail")
    /\ byButton => (selectedSession(sessions, selectedID) # None /\ ~busySending)
    /\ LET sel == selectedSession(sessions, selectedID)
           d == route(composer)
       IN  IF sel = None \/ trim(composer) = <<>>
           THEN Commit(Cur, EmptyBag, EmptyBag)
           ELSE IF d.endpoint = "empty"
           THEN Commit([Cur EXCEPT !.busySending = FALSE, !.error = None],
                       EmptyBag, EmptyBag)
           ELSE Commit([Cur EXCEPT !.busySending = TRUE, !.error = None], EmptyBag,
                       One(Task("send", "api", sel, credsPresent(config), FALSE, d)))

\* A send whose catch path leaves busySending set.
sendSettleNoFinally(t, ok, msg) ==
    /\ t.op = "send" /\ t.pc = "api"
    /\ IF ~ok
       THEN Commit([Cur EXCEPT !.error = msg], One(t), EmptyBag)
       ELSE Commit([Cur EXCEPT !.composer = <<>>, !.error = None], One(t),
                   One(Then(t, "load", t.creds, None)))

\* send after sendCommand/sendPrompt settles, lines 184-191: on success the
\* composer is cleared and loadSelected runs to its await.
sendSettle(t, ok, msg) ==
    /\ t.op = "send" /\ t.pc = "api"
    /\ IF ~ok
       THEN Commit([Cur EXCEPT !.error = msg, !.busySending = FALSE], One(t), EmptyBag)
       ELSE Commit([Cur EXCEPT !.composer = <<>>, !.error = None], One(t),
                   One(Then(t, "load", t.creds, None)))

\* ---------------------------------------------------------------- shared awaits
\* refreshSessions after listSessions and listStatuses settle, lines 113-129,
\* and on into its caller: createSession selects and starts loadSelected (160-161),
\* abortSession starts loadSelected (214), send ends (186-191).
refreshSessionsSettle(t, ok, its, sts, msg) ==
    /\ t.pc = "refresh"
    /\ LET settled == IF ok THEN [Cur EXCEPT !.sessions = reconcile(its, sts)]
                      ELSE [Cur EXCEPT !.error = msg]
           caught == IF ok THEN t.failed ELSE msg
           published == ok /\ t.op \in UserActions
           passed == IF published THEN TickFetches(inflight, "refresh") ELSE EmptyBag
           noted == IF published THEN Outrun(inflight, "refresh") ELSE EmptyBag
       IN  CASE t.op = "create" ->
                  Commit([settled EXCEPT !.selectedID = t.sid, !.error = None],
                         One(t) (+) passed,
                         One(Then(t, "load", FALSE, caught)) (+) noted)
             [] t.op = "abort" ->
                  Commit([settled EXCEPT !.error = None],
                         One(t) (+) passed,
                         One(Then(t, "load", FALSE, caught)) (+) noted)
             [] t.op = "send" ->
                  Commit([settled EXCEPT !.busySending = FALSE], One(t) (+) passed, noted)
             [] OTHER ->
                  Commit(settled, One(t) (+) passed, noted)

\* A loadSelected that publishes the messages although the todos failed.
loadSelectedSettlePartial(t, ok, payload, msg) ==
    /\ t.pc = "load"
    /\ LET settled == IF ok
                      THEN [Cur EXCEPT !.messages = [sid |-> t.sid, v |-> payload],
                                       !.todos = [sid |-> t.sid, v |-> payload]]
                      ELSE [Cur EXCEPT !.messages = [sid |-> t.sid, v |-> "m1"],
                                       !.error = msg]
           published == ok /\ t.op \in UserActions
           passed == IF published THEN TickFetches(inflight, "load") ELSE EmptyBag
           noted == IF published THEN Outrun(inflight, "load") ELSE EmptyBag
       IN  IF t.op = "send"
           THEN IF t.creds
                THEN Commit([settled EXCEPT !.error = None], One(t) (+) passed,
                            One(Then(t, "refresh", FALSE, IF ok THEN t.failed ELSE msg))
                              (+) noted)
                ELSE Commit([settled EXCEPT !.busySending = FALSE], One(t) (+) passed, noted)
           ELSE Commit(settled, One(t) (+) passed, noted)

\* loadSelected after loadMessages and loadTodo settle, lines 145-153, and on
\* into its caller: send runs refreshSessions() to its await or ends (186-191).
\* What a user action publishes outruns the tick fetches still awaited.
loadSelectedSettle(t, ok, payload, msg) ==
    /\ t.pc = "load"
    /\ LET settled == IF ok
                      THEN [Cur EXCEPT !.messages = [sid |-> t.sid, v |-> payload],
                                       !.todos = [sid |-> t.sid, v |-> payload]]
                      ELSE [Cur EXCEPT !.error = msg]
           published == ok /\ t.op \in UserActions
           passed == IF published THEN TickFetches(inflight, "load") ELSE EmptyBag
           noted == IF published THEN Outrun(inflight, "load") ELSE EmptyBag
       IN  IF t.op = "send"
           THEN IF t.creds
                THEN Commit([settled EXCEPT !.error = None], One(t) (+) passed,
                            One(Then(t, "refresh", FALSE, IF ok THEN t.failed ELSE msg))
                              (+) noted)
                ELSE Commit([settled EXCEPT !.busySending = FALSE], One(t) (+) passed, noted)
           ELSE Commit(settled, One(t) (+) passed, noted)

\* loadCommands after listCommands settles, lines 135-139.
loadCommandsSettle(t, ok, list) ==
    /\ t.pc = "commands"
    /\ Commit([Cur EXCEPT !.commands = IF ok THEN list ELSE <<>>], One(t), EmptyBag)

\* ---------------------------------------------------------------- polling
\* One firing of the interval callback, lines 224-229, with the closure of the
\* render that set it.
tick(timer) ==
    /\ timer \in timers
    /\ Commit([Cur EXCEPT !.error = IF timer.sel # None THEN None ELSE error],
              EmptyBag,
              (IF timer.creds
               THEN One(Task("tick", "refresh", None, TRUE, FALSE, NoDispatch))
               ELSE EmptyBag)
              (+)
              (IF timer.sel # None
               THEN One(Task("tick", "load", timer.sel, FALSE, FALSE, NoDispatch))
               ELSE EmptyBag))

\* ---------------------------------------------------------------- the client
\* The polling scheduler and the sessions view: saving a config, listing,
\* opening and deleting sessions, interval ticks, and every response.
SettlePolling(t) ==
    \/ deleteSessionSettle(t, TRUE, None)
    \/ \E its \in ServedLists, sts \in ServedStatuses :
          refreshSessionsSettle(t, TRUE, its, sts, None)
    \/ \E payload \in Payloads : loadSelectedSettle(t, TRUE, payload, None)
    \/ \E list \in ServedCommands : loadCommandsSettle(t, TRUE, list)
    \/ \E msg \in ErrMsgs :
          \/ deleteSessionSettle(t, FALSE, msg)
          \/ refreshSessionsSettle(t, FALSE, <<>>, <<>>, msg)
          \/ loadSelectedSettle(t, FALSE, None, msg)
    \/ loadCommandsSettle(t, FALSE, <<>>)

Next ==
    \/ \E c \in PolledConfigs : fillAndSave(c)
    \/ \E id \in Ids : openSession(id)
    \/ \E id \in Ids : deleteSession(id)
    \/ \E timer \in timers : tick(timer)
    \/ \E t \in BagToSet(inflight) : SettlePolling(t)

Spec == Init /\ [][Next]_vars

\* The user-triggered actions: a client that has listed one session, with or
\* without a password, on which the user tests, creates, opens, deletes,
\* aborts, types and sends while every response may be a success or a failure.
InitActions ==
    /\ config \in {c \in PolledConfigs : c.host # ""}
    /\ storage = stringify(config)
    /\ draftConfig = config
    /\ view = "sessions"
    /\ commands = <<>>
    /\ sessions = reconcile(<<rawOf("s1")>>, <<>>)
    /\ selectedID = None
    /\ messages = Empty
    /\ todos = Empty
    /\ composer = <<>>
    /\ busySending = FALSE
    /\ error = None
    /\ timers = IF pollingGuard(config)
                THEN {[id |-> 0, sel |-> None, creds |-> credsPresent(config)]}
                ELSE {}
    /\ effectCleanup = IF pollingGuard(config) THEN 0 ELSE -1
    /\ inflight = EmptyBag
    /\ items = <<>>
    /\ statuses = <<>>
    /\ shownText = <<>>
    /\ shownLines = NotRendered

SettleActions(t) ==
    \/ testConnectionSettle(t, TRUE, None)
    \/ \E id \in Ids : createSessionSettle(t, TRUE, id, None)
    \/ deleteSessionSettle(t, TRUE, None)
    \/ abortSessionSettle(t, TRUE, None)
    \/ sendSettle(t, TRUE, None)
    \/ \E its \in ServedLists, sts \in ServedStatuses :
          refreshSessionsSettle(t, TRUE, its, sts, None)
    \/ \E payload \in Payloads : loadSelectedSettle(t, TRUE, payload, None)
    \/ \E list \in ServedCommands : loadCommandsSettle(t, TRUE, list)
    \/ \E msg \in ErrMsgs :
          \/ testConnectionSettle(t, FALSE, msg)
          \/ createSessionSettle(t, FALSE, None, msg)
          \/ deleteSessionSettle(t, FALSE, msg)
          \/ abortSessionSettle(t, FALSE, msg)
          \/ sendSettle(t, FALSE, msg)
          \/ refreshSessionsSettle(t, FALSE, <<>>, <<>>, msg)
          \/ loadSelectedSettle(t, FALSE, None, msg)
    \/ loadCommandsSettle(t, FALSE, <<>>)

NextActions ==
    \/ testConnection
    \/ createSession
    \/ \E id \in Ids : openSession(id)
    \/ \E id \in Ids : deleteSession(id)
    \/ abortSession
    \/ \E text \in TypedTexts : setComposer(text)
    \/ \E byButton \in BOOLEAN : send(byButton)
    \/ \E t \in BagToSet(inflight) : SettleActions(t)

SpecActions == InitActions /\ [][NextActions]_vars

\* The send handler on every composer text up to MaxLen characters: a client
\* polling with one session listed and selected, the detail view on screen.
AllTexts == SeqsUpTo(Alphabet, MaxLen)

InitSend ==
    /\ config = [defaultConfig EXCEPT !.host = "h", !.password = "p"]
    /\ storage = stringify(config)
    /\ draftConfig = config
    /\ view = "detail"
    /\ commands = <<>>
    /\ sessions = reconcile(<<rawOf("s1")>>, <<>>)
    /\ selectedID = "s1"
    /\ messages = Empty
    /\ todos = Empty
    /\ composer \in AllTexts
    /\ busySending = FALSE
    /\ error = None
    /\ timers = {[id |-> 0, sel |-> "s1", creds |-> TRUE]}
    /\ effectCleanup = 0
    /\ inflight = EmptyBag
    /\ items = <<>>
    /\ statuses = <<>>
    /\ shownText = <<>>
    /\ shownLines = NotRendered

\* One awaited call of a send resolves or rejects.
SettleSend ==
    \E t \in BagToSet(inflight) :
       \/ sendSettle(t, TRUE, None)
       \/ \E payload \in Payloads : loadSelectedSettle(t, TRUE, payload, None)
       \/ refreshSessionsSettle(t, TRUE, <<rawOf("s1")>>, <<>>, None)
       \/ \E msg \in ErrMsgs :
             \/ sendSettle(t, FALSE, msg)
             \/ loadSelectedSettle(t, FALSE, None, msg)
             \/ refreshSessionsSettle(t, FALSE, <<>>, <<>>, msg)

NextSend ==
    \/ \E text \in TypedTexts : setComposer(text)
    \/ \E byButton \in BOOLEAN : send(byButton)
    \/ SettleSend

SpecSend == InitSend /\ [][NextSend]_vars

\* The same handler on every text up to MaxTyped characters, when every awaited
\* call is answered: a promise that is awaited resolves or rejects, and its
\* continuation then runs.
InitSendAnswered == InitSend /\ Len(composer) <= MaxTyped

SpecSendAnswered == InitSendAnswered /\ [][NextSend]_vars /\ WF_vars(SettleSend)

\* The reconciler on every session list up to MaxItems entries and every status
\* map: a polling client whose refreshSessions awaits the server's answer, and
\* the Refresh button to run it again on the same answer.
InitReconcile ==
    /\ config = [defaultConfig EXCEPT !.host = "h", !.password = "p"]
    /\ storage = stringify(config)
    /\ draftConfig = config
    /\ view = "sessions"
    /\ commands = <<>>
    /\ sessions = <<>>
    /\ selectedID = None
    /\ messages = Empty
    /\ todos = Empty
    /\ composer = <<>>
    /\ busySending = FALSE
    /\ error = None
    /\ timers = {[id |-> 0, sel |-> None, creds |-> TRUE]}
    /\ effectCleanup = 0
    /\ inflight = One(Task("silent", "refresh", None, TRUE, FALSE, NoDispatch))
    /\ items \in SeqsUpTo(RawSessions, MaxItems)
    /\ statuses \in StatusMaps
    /\ shownText = <<>>
    /\ shownLines = NotRendered

NextReconcile ==
    \/ refreshButton
    \/ \E t \in BagToSet(inflight) : refreshSessionsSettle(t, TRUE, items, statuses, None)

SpecReconcile == InitReconcile /\ [][NextReconcile]_vars

\* The settings panel on every persisted value: the draft inputs, Save, Test,
\* the responses awaited, and the App mounted anew from what is stored.
InitSettings ==
    /\ storage \in StoredValues
    /\ config = loadConfig(storage)
    /\ draftConfig = config
    /\ view = IF hasConfiguredServer(config) THEN "sessions" ELSE "settings"
    /\ commands = <<>>
    /\ sessions = <<>>
    /\ selectedID = None
    /\ messages = Empty
    /\ todos = Empty
    /\ composer = <<>>
    /\ busySending = FALSE
    /\ error = None
    /\ timers = IF pollingGuard(config)
                THEN {[id |-> 0, sel |-> None, creds |-> credsPresent(config)]}
                ELSE {}
    /\ effectCleanup = IF pollingGuard(config) THEN 0 ELSE -1
    /\ inflight = IF pollingGuard(config) /\ credsPresent(config)
                  THEN One(Task("silent", "refresh", None, TRUE, FALSE, NoDispatch))
                         (+) One(Task("effect", "commands", None, TRUE, FALSE, NoDispatch))
                  ELSE EmptyBag
    /\ items = <<>>
    /\ statuses = <<>>
    /\ shownText = <<>>
    /\ shownLines = NotRendered

\* The page is loaded again: every useState initialiser runs on what is stored
\* (lines 46-71), the effects of lines 220-237 run once, and what the previous
\* page awaited or had scheduled is gone with it.
mount ==
    /\ config' = loadConfig(storage)
    /\ draftConfig' = config'
    /\ view' = IF hasConfiguredServer(config') THEN "sessions" ELSE "settings"
    /\ commands' = <<>>
    /\ sessions' = <<>>
    /\ selectedID' = None
    /\ messages' = Empty
    /\ todos' = Empty
    /\ composer' = <<>>
    /\ busySending' = FALSE
    /\ error' = None
    /\ timers' = IF pollingGuard(config')
                 THEN {[id |-> 0, sel |-> None, creds |-> credsPresent(config')]}
                 ELSE {}
    /\ effectCleanup' = IF pollingGuard(config') THEN 0 ELSE -1
    /\ inflight' = IF pollingGuard(config') /\ credsPresent(config')
                   THEN One(Task("silent", "refresh", None, TRUE, FALSE, NoDispatch))
                          (+) One(Task("effect", "commands", None, TRUE, FALSE, NoDispatch))
                   ELSE EmptyBag
    /\ UNCHANGED <<items, statuses, storage, shownText, shownLines>>

NextSettings ==
    \/ \E c \in Configs : setDraftConfig(c)
    \/ saveConfig
    \/ testConnection
    \/ mount
    \/ \E t \in BagToSet(inflight) :
          \/ testConnectionSettle(t, TRUE, None)
          \/ \E msg \in ErrMsgs : testConnectionSettle(t, FALSE, msg)
          \/ refreshSessionsSettle(t, TRUE, <<>>, <<>>, None)
          \/ loadCommandsSettle(t, TRUE, <<>>)

SpecSettings == InitSettings /\ [][NextSettings]_vars

\* The actions that end in a refresh: a client with s1 listed and selected and a
\* command typed, with or without a password, on which the user creates,
\* deletes, aborts and sends while every response may be a success or a failure.
InitFollowUp ==
    /\ config \in {c \in PolledConfigs : c.host # ""}
    /\ storage = stringify(config)
    /\ draftConfig = config
    /\ view = "sessions"
    /\ commands = <<>>
    /\ sessions = reconcile(<<rawOf("s1")>>, <<>>)
    /\ selectedID = "s1"
    /\ messages = Empty
    /\ todos = Empty
    /\ composer = <<"/", "a">>
    /\ busySending = FALSE
    /\ error = None
    /\ timers = IF pollingGuard(config)
                THEN {[id |-> 0, sel |-> "s1", creds |-> credsPresent(config)]}
                ELSE {}
    /\ effectCleanup = IF pollingGuard(config) THEN 0 ELSE -1
    /\ inflight = EmptyBag
    /\ items = <<>>
    /\ statuses = <<>>
    /\ shownText = <<>>
    /\ shownLines = NotRendered

NextFollowUp ==
    \/ createSession
    \/ \E id \in Ids : deleteSession(id)
    \/ abortSession
    \/ \E byButton \in BOOLEAN : send(byButton)
    \/ \E t \in BagToSet(inflight) :
          \/ createSessionSettle(t, TRUE, "s2", None)
          \/ deleteSessionSettle(t, TRUE, None)
          \/ abortSessionSettle(t, TRUE, None)
          \/ sendSettle(t, TRUE, None)
          \/ \E its \in ServedLists : refreshSessionsSettle(t, TRUE, its, <<>>, None)
          \/ \E payload \in Payloads : loadSelectedSettle(t, TRUE, payload, None)
          \/ loadCommandsSettle(t, TRUE, <<>>)
          \/ \E msg \in ErrMsgs :
                \/ createSessionSettle(t, FALSE, None, msg)
                \/ deleteSessionSettle(t, FALSE, msg)
                \/ abortSessionSettle(t, FALSE, msg)
                \/ sendSettle(t, FALSE, msg)
                \/ refreshSessionsSettle(t, FALSE, <<>>, <<>>, msg)
                \/ loadSelectedSettle(t, FALSE, None, msg)

SpecFollowUp == InitFollowUp /\ [][NextFollowUp]_vars

\* The formatter on every text up to MaxLen characters: the detail view renders
\* the message and runs toDisplayLines on its text (line 386).
InitDisplay ==
    /\ config = [defaultConfig EXCEPT !.host = "h", !.password = "p"]
    /\ storage = stringify(config)
    /\ draftConfig = config
    /\ view = "detail"
    /\ commands = <<>>
    /\ sessions = reconcile(<<rawOf("s1")>>, <<>>)
    /\ selectedID = "s1"
    /\ messages = [sid |-> "s1", v |-> "m1"]
    /\ todos = messages
    /\ composer = <<>>
    /\ busySending = FALSE
    /\ error = None
    /\ timers = {[id |-> 0, sel |-> "s1", creds |-> TRUE]}
    /\ effectCleanup = 0
    /\ inflight = EmptyBag
    /\ items = <<>>
    /\ statuses = <<>>
    /\ shownText \in SeqsUpTo(DisplayAlphabet, MaxLen)
    /\ shownLines = NotRendered

\* The message list is rendered, lines 383-386.
renderMessage ==
    /\ view = "detail"
    /\ shownLines' = toDisplayLines(shownText)
    /\ UNCHANGED <<config, draftConfig, view, commands, sessions, selectedID, messages,
                   todos, composer, busySending, error, timers, effectCleanup, inflight,
                   items, statuses, storage, shownText>>

NextDisplay == renderMessage

SpecDisplay == InitDisplay /\ [][NextDisplay]_vars

\* ---------------------------------------------------------------- claims: scheduler
\* Continuations by which the step adds to those awaiting a response (noting
\* an awaited fetch as outrun issues nothing).
Issued(t) == ~t.outrun /\ CopiesIn(t, inflight') > CopiesIn(t, inflight)

\* C1: a loadMessages/loadTodo result for session S that arrives when S is no
\* longer the selected session does not change the displayed messages and todos.
C1_StaleResultDiscarded ==
    [][\A t \in BagToSet(inflight), payload \in Payloads :
          (t.sid # selectedID /\ loadSelectedSettle(t, TRUE, payload, None))
              => (messages' = messages /\ todos' = todos)]_vars

\* C2: at most one polling interval is set at any time.
C2_AtMostOneTimer == Cardinality(timers) <= 1

\* C2 witness: the selection changed while polling and the interval now set is
\* the one whose callback closes over the newly selected session.
C2_Witness == \E t \in timers : t.sel = "s2" /\ selectedID = "s2" /\ Cardinality(timers) = 1

\* C3: an interval is set exactly when host and password of the active config
\* are both non-empty, and only then does a tick issue a fetch.
C3_PollingIffCredentials ==
    /\ [](timers # {} <=> (config.host # "" /\ config.password # ""))
    /\ [][(\E t \in BagToSet(inflight') : t.op = "tick" /\ Issued(t))
             => (config.host # "" /\ config.password # "")]_vars

\* C3 witness: the credentials were cleared while a tick's fetch was still
\* awaited, and no interval is left.
C3_Witness ==
    /\ timers = {}
    /\ config.password = ""
    /\ \E t \in BagToSet(inflight) : t.op = "tick"

\* C4: a failed fetch of a poll tick changes neither the session list, the
\* messages, the todos, the selection nor the displayed error.
C4_TickFailureSwallowed ==
    [][\A t \in BagToSet(inflight), msg \in ErrMsgs :
          (t.op = "tick" /\ (\/ refreshSessionsSettle(t, FALSE, <<>>, <<>>, msg)
                             \/ loadSelectedSettle(t, FALSE, None, msg)))
              => UNCHANGED <<sessions, messages, todos, selectedID, error>>]_vars

\* C6: when deleteSession succeeds for the session that is selected, the
\* selection becomes none, messages and todos become empty, and the interval
\* left running fetches no messages or todos.
C6_DeleteSelectedClears ==
    [][\A t \in BagToSet(inflight) :
          (t.sid = selectedID /\ deleteSessionSettle(t, TRUE, None))
              => /\ selectedID' = None
                 /\ messages' = Empty
                 /\ todos' = Empty
                 /\ \A timer \in timers' : timer.sel = None]_vars

\* ---------------------------------------------------------------- claims: actions
\* The step handles a response for t and no continuation of t's handler run
\* awaits anything after it: the action has finished.
Finishes(t) ==
    /\ CopiesIn(t, inflight') < CopiesIn(t, inflight)
    /\ \A u \in BagToSet(inflight') : (u.op = t.op /\ u.pc # t.pc) => ~Issued(u)

\* The step handles a rejection with message msg for t.
FailsWith(t, msg) ==
    \/ testConnectionSettle(t, FALSE, msg)
    \/ createSessionSettle(t, FALSE, None, msg)
    \/ deleteSessionSettle(t, FALSE, msg)
    \/ abortSessionSettle(t, FALSE, msg)
    \/ sendSettle(t, FALSE, msg)
    \/ refreshSessionsSettle(t, FALSE, <<>>, <<>>, msg)
    \/ loadSelectedSettle(t, FALSE, None, msg)

\* C5: when a user-triggered action has finished and one of its ApiClient calls
\* failed, the displayed error is that failure's message: the one of its last
\* step if that step failed, else the one caught earlier in the same run.
C5_ActionErrorSurfaced ==
    [][\A t \in BagToSet(inflight) :
          (t.op \in UserActions /\ Finishes(t))
              => /\ \A msg \in ErrMsgs : FailsWith(t, msg) => error' = msg
                 /\ (t.failed # None /\ ~\E msg \in ErrMsgs : FailsWith(t, msg))
                        => error' = t.failed]_vars

\* ---------------------------------------------------------------- claims: reconciler
\* The SessionView the claim describes for one served session.
ClaimedView(session) ==
    [id |-> session.id,
     title |-> session.title,
     directory |-> session.directory,
     updated |-> session.updated,
     status |-> IF session.id \in DOMAIN statuses THEN statuses[session.id] ELSE "unknown",
     files |-> IF session.summary = NoSummary THEN 0 ELSE session.summary.files,
     additions |-> IF session.summary = NoSummary THEN 0 ELSE session.summary.additions,
     deletions |-> IF session.summary = NoSummary THEN 0 ELSE session.summary.deletions]

ClaimedViews == [i \in 1..Len(items) |-> ClaimedView(items[i])]

Occurrences(q, x) == Cardinality({i \in 1..Len(q) : q[i] = x})

\* The served answer has been reconciled and published.
Published == sessions # <<>> \/ inflight = EmptyBag

\* C7: the published list holds exactly one SessionView per served session, with
\* the status of the status map or "unknown" and the summary numbers or 0.
C7_OneViewPerSession ==
    Published =>
        /\ Len(sessions) = Len(items)
        /\ \A i \in 1..Len(items) :
              Occurrences(sessions, ClaimedViews[i]) = Occurrences(ClaimedViews, ClaimedViews[i])

\* C7 witness: a published list with one session that has a status and a
\* summary and one that has neither.
C7_Witness ==
    /\ inflight = EmptyBag
    /\ Len(sessions) = 2
    /\ \E i, j \in 1..2 :
          /\ sessions[i].status = "unknown" /\ sessions[i].files = 0
          /\ sessions[j].status = "busy" /\ sessions[j].additions = 2

\* C8: the published list is non-increasing by updated, and the sessions of
\* equal updated keep the order in which the server listed them.
C8_SortedStable ==
    Published =>
        /\ \A i \in 1..Len(sessions) - 1 : sessions[i].updated >= sessions[i + 1].updated
        /\ \A u \in Updateds :
              LET At(v) == v.updated = u
              IN  SelectSeq(sessions, At) = SelectSeq(ClaimedViews, At)

\* C8 witness: a published list of three in which two different sessions tie on
\* updated and the third is older.
C8_Witness ==
    /\ inflight = EmptyBag
    /\ Len(sessions) = 3
    /\ sessions[1].updated = sessions[2].updated
    /\ sessions[1].id # sessions[2].id
    /\ sessions[2].updated > sessions[3].updated
    /\ items[1] = [id |-> sessions[3].id, title |-> "t", directory |-> "d",
                   updated |-> 1, summary |-> NoSummary]

\* ---------------------------------------------------------------- claims: send
\* The parse the claim describes: the command name is the text after the "/" up
\* to the first whitespace character, the args are what follows it, trimmed.
RECURSIVE UpToWhitespace(_)
UpToWhitespace(s) ==
    IF s = <<>> \/ Head(s) \in Whitespace THEN <<>>
    ELSE <<Head(s)>> \o UpToWhitespace(Tail(s))

ClaimedDispatches(composerText) ==
    LET text == trim(composerText)
        rest == slice(text, 1)
        name == UpToWhitespace(rest)
    IN  IF text = <<>> THEN {}
        ELSE IF Head(text) = "/"
        THEN IF name = <<>> THEN {}
             ELSE {[endpoint |-> "command", name |-> name,
                    args |-> trim(slice(rest, Len(name)))]}
        ELSE {[endpoint |-> "prompt", name |-> text, args |-> <<>>]}

\* What the step hands to sendCommand/sendPrompt.
Dispatched ==
    {t.disp : t \in {u \in BagToSet(inflight') : u.op = "send" /\ u.pc = "api" /\ Issued(u)}}

\* C9: one send with a session selected dispatches at most once, and exactly
\* what the prefix policy prescribes for the composer text.
C9_SendRoutesByPrefix ==
    [][\A byButton \in BOOLEAN :
          (send(byButton) /\ selectedSession(sessions, selectedID) # None)
              => /\ Dispatched = ClaimedDispatches(composer)
                 /\ BagCardinality(inflight') <= BagCardinality(inflight) + 1]_vars

\* C10: a send whose text is blank or whose command name is empty issues no
\* request and leaves composer, messages, todos and session list as they were.
C10_EmptySendShortCircuits ==
    [][\A byButton \in BOOLEAN :
          (send(byButton) /\ ClaimedDispatches(composer) = {})
              => /\ inflight' = inflight
                 /\ UNCHANGED <<composer, messages, todos, sessions>>]_vars

\* ---------------------------------------------------------------- claims: settings
\* C11: editing the draft and running Test leave the active config, the
\* persisted config and the polling interval as they are, and Save makes the
\* active config and the persisted config equal to the draft.
C11_ConfigOnlyBySave ==
    [][/\ (\/ \E c \in Configs : setDraftConfig(c)
           \/ testConnection
           \/ \E t \in BagToSet(inflight), msg \in ErrMsgs :
                 testConnectionSettle(t, TRUE, None) \/ testConnectionSettle(t, FALSE, msg))
              => UNCHANGED <<config, storage, timers, effectCleanup>>
       /\ saveConfig
              => /\ config' = draftConfig
                 /\ storage'.present /\ storage'.json
                 /\ storage'.value = draftConfig]_vars

\* C11 witness: a config with host and password is active and persisted, the
\* draft has been edited away from it, and a Test is awaiting its response.
C11_Witness ==
    /\ storage.present /\ storage.json /\ storage.value = config
    /\ credsPresent(config)
    /\ draftConfig.host = ""
    /\ timers # {}
    /\ \E t \in BagToSet(inflight) : t.op = "test"

\* C12: the active config is the default when nothing or a corrupt text is
\* persisted, and otherwise the default overridden by each persisted field.
C12_LoadNeverFails ==
    /\ (~storage.present \/ ~storage.json) => config = defaultConfig
    /\ (storage.present /\ storage.json)
          => \A f \in Fields :
                config[f] = IF f \in DOMAIN storage.value THEN storage.value[f]
                            ELSE defaultConfig[f]

\* C12 witness: a corrupt text is persisted, the page was loaded on it and the
\* user has begun to fill in the draft.
C12_Witness ==
    /\ storage = CorruptText
    /\ config = defaultConfig
    /\ view = "settings"
    /\ draftConfig.host = "h"

\* ---------------------------------------------------------------- claims: ticks
\* How many continuations of handler op await at pc in bag b.
Awaiting(b, op, pc) == CountSet(b, {t \in BagToSet(b) : t.op = op /\ t.pc = pc})

\* C13: every tick issues exactly one listSessions+listStatuses pair, and one
\* loadMessages+loadTodo pair for the selected session exactly when a session
\* is selected, and nothing else.
C13_TickFetches ==
    [][\A timer \in timers :
          tick(timer) =>
              LET sel == selectedSession(sessions, selectedID)
                  loads == IF sel = None THEN 0 ELSE 1
              IN  /\ Awaiting(inflight', "tick", "refresh")
                        = Awaiting(inflight, "tick", "refresh") + 1
                  /\ Awaiting(inflight', "tick", "load")
                        = Awaiting(inflight, "tick", "load") + loads
                  /\ \A t \in BagToSet(inflight') :
                        (t.op = "tick" /\ t.pc = "load" /\ Issued(t)) => t.sid = sel
                  /\ BagCardinality(inflight') = BagCardinality(inflight) + 1 + loads]_vars

\* C13 witness: with s2 selected a tick has issued its list pair and its
\* message pair for s2, and both are still awaited.
C13_Witness ==
    /\ selectedSession(sessions, selectedID) = "s2"
    /\ Awaiting(inflight, "tick", "refresh") = 1
    /\ \E t \in BagToSet(inflight) : t.op = "tick" /\ t.pc = "load" /\ t.sid = "s2"

\* ---------------------------------------------------------------- claims: joins
\* C14: the session list changes only when a listSessions+listStatuses pair has
\* succeeded, messages and todos change only together, when a
\* loadMessages+loadTodo pair has succeeded or a delete cleared them, a failed
\* pair changes none of them, and messages and todos always stem from one pair.
C14_NoPartialMerge ==
    /\ [](messages = todos)
    /\ [][\A t \in BagToSet(inflight), msg \in ErrMsgs :
            /\ loadSelectedSettle(t, FALSE, None, msg) => UNCHANGED <<messages, todos>>
            /\ refreshSessionsSettle(t, FALSE, <<>>, <<>>, msg) => UNCHANGED sessions]_vars
    /\ [][sessions' # sessions
            => \E t \in BagToSet(inflight), its \in ServedLists, sts \in ServedStatuses :
                  refreshSessionsSettle(t, TRUE, its, sts, None)]_vars
    /\ [][(messages' # messages \/ todos' # todos)
            => \E t \in BagToSet(inflight) :
                  \/ \E payload \in Payloads : loadSelectedSettle(t, TRUE, payload, None)
                  \/ deleteSessionSettle(t, TRUE, None)]_vars

\* C14 witness: the messages and todos of s1 are displayed, s2 has been opened
\* and a fetch has failed since.
C14_Witness ==
    /\ messages.sid = "s1" /\ todos.sid = "s1"
    /\ selectedID = "s2"
    /\ error # None
    /\ ~\E t \in BagToSet(inflight) : t.pc = "load"

\* ---------------------------------------------------------------- claims: overlap
\* C15: once a user action has published the session list or the messages and
\* todos, the response to a tick fetch issued before that replaces neither.
C15_TickNeverOverwrites ==
    [][\A t \in BagToSet(inflight) :
          (t.op = "tick" /\ t.outrun)
              => /\ (\E its \in ServedLists, sts \in ServedStatuses :
                        refreshSessionsSettle(t, TRUE, its, sts, None))
                       => sessions' = sessions
                 /\ (\E payload \in Payloads : loadSelectedSettle(t, TRUE, payload, None))
                       => UNCHANGED <<messages, todos>>]_vars

\* ---------------------------------------------------------------- claims: follow-up
\* The step handles the success, or a rejection, of the action's own API call.
ApiSucceeds(t) ==
    \/ \E id \in Ids : createSessionSettle(t, TRUE, id, None)
    \/ deleteSessionSettle(t, TRUE, None)
    \/ abortSessionSettle(t, TRUE, None)
    \/ sendSettle(t, TRUE, None)

ApiFails(t) ==
    \E msg \in ErrMsgs :
        \/ createSessionSettle(t, FALSE, None, msg)
        \/ deleteSessionSettle(t, FALSE, msg)
        \/ abortSessionSettle(t, FALSE, msg)
        \/ sendSettle(t, FALSE, msg)

\* The step handles the response, good or bad, to the fetch t awaits.
FetchSettles(t) ==
    \/ \E its \in ServedLists : refreshSessionsSettle(t, TRUE, its, <<>>, None)
    \/ \E payload \in Payloads : loadSelectedSettle(t, TRUE, payload, None)
    \/ \E msg \in ErrMsgs :
          \/ refreshSessionsSettle(t, FALSE, <<>>, <<>>, msg)
          \/ loadSelectedSettle(t, FALSE, None, msg)

\* The step issues, for handler op, a list refresh, or a reload of session sid.
IssuesRefresh(op) ==
    \E u \in BagToSet(inflight') : u.op = op /\ u.pc = "refresh" /\ Issued(u)

IssuesReload(op, sid) ==
    \E u \in BagToSet(inflight') : u.op = op /\ u.pc = "load" /\ u.sid = sid /\ Issued(u)

\* What follows the own API call of action t when refreshing is expected: the
\* refresh after a successful create, delete or abort, the reload after a
\* successful send and the refresh after that reload, the reload after the
\* refresh of create and abort.
FollowsUp(t, refreshing) ==
    /\ (t.pc = "api" /\ t.op \in {"create", "delete", "abort"} /\ ApiSucceeds(t) /\ refreshing)
          => IssuesRefresh(t.op)
    /\ (t.pc = "api" /\ t.op = "send" /\ ApiSucceeds(t)) => IssuesReload("send", t.sid)
    /\ (t.pc = "load" /\ t.op = "send" /\ FetchSettles(t) /\ refreshing)
          => IssuesRefresh("send")
    /\ (t.pc = "refresh" /\ t.op \in {"create", "abort"} /\ FetchSettles(t))
          => IssuesReload(t.op, t.sid)
    /\ (t.pc = "api" /\ t.op \in {"create", "delete", "abort", "send"} /\ ApiFails(t))
          => ~\E u \in BagToSet(inflight') : u.op = t.op /\ Issued(u)

\* C16 as stated: after the successful API call of create, delete, abort or
\* send a list refresh is issued, for create, abort and send also a reload of
\* the affected session, and after a failed API call nothing is issued.
C16_RefreshAfterAction ==
    [][\A t \in BagToSet(inflight) : FollowsUp(t, TRUE)]_vars

\* C16 amended: the same with host and password set when the action starts;
\* without them create, abort and send reload the session and no list refresh
\* is issued by any of the four.
C16_RefreshAfterActionWithCredentials ==
    [][\A t \in BagToSet(inflight) :
          /\ FollowsUp(t, t.creds)
          /\ (t.pc = "api" /\ t.op \in {"create", "abort"} /\ ApiSucceeds(t) /\ ~t.creds)
                => \E id \in Ids : IssuesReload(t.op, id)
          /\ (t.op \in {"create", "delete", "abort", "send"} /\ ~t.creds
                /\ (ApiSucceeds(t) \/ FetchSettles(t)))
                => ~IssuesRefresh(t.op)]_vars

\* C16 witness: with host and password set a send has dispatched, reloaded the
\* session and now awaits its list refresh.
C16_Witness ==
    /\ credsPresent(config)
    /\ composer = <<>>
    /\ messages.sid = "s1"
    /\ \E t \in BagToSet(inflight) : t.op = "send" /\ t.pc = "refresh"

\* ---------------------------------------------------------------- claims: catalog
\* C17: after the fetch made when the client starts, listCommands is issued
\* only by a step that changes host or password.
C17_CatalogFetchedOnce ==
    [][(\E u \in BagToSet(inflight') : u.pc = "commands" /\ Issued(u))
          => (config'.host # config.host \/ config'.password # config.password)]_vars

\* ---------------------------------------------------------------- claims: formatter
\* The lines the claim describes: of the trimmed split lines, a line is removed
\* exactly when it is empty and the line right before it is empty too.
RECURSIVE ClaimedFilter(_, _)
ClaimedFilter(arr, idx) ==
    IF idx > Len(arr) THEN <<>>
    ELSE (IF Len(arr[idx]) = 0 /\ idx > 1 /\ Len(arr[idx - 1]) = 0
          THEN <<>> ELSE <<arr[idx]>>) \o ClaimedFilter(arr, idx + 1)

C19_TickFrame ==
    [][(\/ \E timer \in timers : tick(timer)
        \/ \E t \in BagToSet(inflight) :
              /\ t.op = "tick"
              /\ \/ \E its \in ServedLists, sts \in ServedStatuses :
                       refreshSessionsSettle(t, TRUE, its, sts, None)
                 \/ \E payload \in Payloads : loadSelectedSettle(t, TRUE, payload, None))
          => UNCHANGED <<selectedID, view, composer, config, commands, error>>]_vars

\* ---------------------------------------------------------------- claims: one send at a time
\* C20: while a send awaits its dispatch, its reload or its refresh, a further
\* submission by the Send button or the Enter key dispatches nothing.
C20_NoSecondDispatch ==
    [][\A byButton \in BOOLEAN :
          (send(byButton) /\ \E t \in BagToSet(inflight) : t.op = "send")
              => Dispatched = {}]_vars

\* ---------------------------------------------------------------- claims: busySending
\* C21: when every awaited call resolves or rejects, a send that set
\* busySending sets it back to false: the step that ends a send run, by a
\* failed dispatch, after the reload and refresh whether they failed or not, or
\* by the empty-command return, leaves busySending false, and busySending never
\* stays true for ever. Only a successful dispatch clears the composer: a failed
\* dispatch and the early returns leave the text as it is.
C21_SendResetsBusy ==
    /\ [][/\ \A t \in BagToSet(inflight) :
               /\ (t.op = "send" /\ Finishes(t)) => ~busySending'
               /\ \A msg \in ErrMsgs : sendSettle(t, FALSE, msg) => composer' = composer
               /\ sendSettle(t, TRUE, None) => composer' = <<>>
          /\ \A byButton \in BOOLEAN :
               send(byButton)
                  => /\ composer' = composer
                     /\ (/\ selectedSession(sessions, selectedID) # None
                         /\ trim(composer) # <<>>
                         /\ Dispatched = {}) => ~busySending'
          /\ composer' # composer
               => \/ \E text \in TypedTexts : setComposer(text)
                  \/ \E t \in BagToSet(inflight) : sendSettle(t, TRUE, None)]_vars
    /\ (busySending ~> ~busySending)

\* C21 witness: a send has dispatched, reloaded and refreshed; the composer is
\* cleared, busySending is false again and nothing is awaited.
C21_Witness ==
    /\ messages # Empty
    /\ sessions # <<>>
    /\ composer = <<>>
    /\ ~busySending
    /\ error = None
    /\ inflight = EmptyBag

====
